---------------------------- MODULE Spec2Model ----------------------------
(***************************************************************************)
(* Model of the buscacursos scraper (src/scrapers/buscacursos.py).         *)
(*                                                                         *)
(* Texts are sequences of one-character strings, so that split, strip,     *)
(* join and the regular-expression matches are computed character by       *)
(* character.  A call either returns a value or raises:                    *)
(*   [raised |-> FALSE, val |-> v]   /   [raised |-> TRUE, exc |-> e].     *)
(***************************************************************************)
EXTENDS Integers, Sequences, FiniteSets, TLC

VARIABLES
    call,       \* the last synchronous call: [fn, arg, result]
    pc,         \* "idle"; "called" after a synchronous call; get_courses_raw is
                \* "gathering", then "done"
    doc,        \* the sibling elements of the fetched document, in order
    routines,   \* the coroutines handed to gather_routines (row elements' positions)
    slots,      \* per routine: NotRun or the outcome of parse_row
    completed,  \* routine indices in the order in which they finished
    returned    \* outcome of get_courses_raw once pc = "done"

vars == <<call, pc, doc, routines, slots, completed, returned>>

-----------------------------------------------------------------------------
(* Bounds of the model *)

MaxDays == 2
MaxHours == 2
MaxModuleRows == 2
MaxCells == 4
MaxTeachers == 2
MaxNameParts == 3
MaxOptions == 3
MaxDocLen == 3

-----------------------------------------------------------------------------
(* Python values *)

\* None, as a value no text is equal to
None == <<"None">>

Return(v) == [raised |-> FALSE, val |-> v]

Raise(e) == [raised |-> TRUE, exc |-> e]

Whitespace == {" ", "\n", "\t"}

Digits == <<"0", "1", "2", "3", "4", "5", "6", "7", "8", "9">>

-----------------------------------------------------------------------------
(* str methods *)

\* s[i:].startswith(sep)
StartsWithAt(s, sep, i) ==
    /\ i + Len(sep) - 1 <= Len(s)
    /\ \A k \in 1..Len(sep) : s[i + k - 1] = sep[k]

\* s.find(sep) + 1 (0 when sep does not occur)
str_find(s, sep) ==
    LET hits == {i \in 1..Len(s) : StartsWithAt(s, sep, i)}
    IN  IF hits = {} THEN 0 ELSE CHOOSE i \in hits : \A j \in hits : i <= j

\* s.split(sep) for a non-empty sep
RECURSIVE str_split(_, _)
str_split(s, sep) ==
    LET i == str_find(s, sep)
    IN  IF i = 0
        THEN <<s>>
        ELSE <<SubSeq(s, 1, i - 1)>> \o str_split(SubSeq(s, i + Len(sep), Len(s)), sep)

\* sep.join(parts)
RECURSIVE str_join(_, _)
str_join(parts, sep) ==
    IF parts = <<>> THEN <<>>
    ELSE IF Len(parts) = 1 THEN parts[1]
    ELSE parts[1] \o sep \o str_join(Tail(parts), sep)

\* s.strip()
RECURSIVE str_strip(_)
str_strip(s) ==
    IF s = <<>> THEN s
    ELSE IF s[1] \in Whitespace THEN str_strip(Tail(s))
    ELSE IF s[Len(s)] \in Whitespace THEN str_strip(SubSeq(s, 1, Len(s) - 1))
    ELSE s

\* value of a non-empty run of decimal digits
RECURSIVE DigitsValue(_)
DigitsValue(s) ==
    IF s = <<>> THEN 0
    ELSE 10 * DigitsValue(SubSeq(s, 1, Len(s) - 1))
         + ((CHOOSE d \in 1..10 : Digits[d] = s[Len(s)]) - 1)

IsDigits(s) == s # <<>> /\ \A i \in 1..Len(s) : \E d \in 1..10 : Digits[d] = s[i]

\* int(s): surrounding whitespace and one sign are accepted
python_int(s) ==
    LET t == str_strip(s)
        signed == t # <<>> /\ t[1] \in {"+", "-"}
        body == IF signed THEN Tail(t) ELSE t
    IN  IF ~IsDigits(body) THEN Raise("ValueError")
        ELSE IF signed /\ t[1] = "-" THEN Return(0 - DigitsValue(body))
        ELSE Return(DigitsValue(body))

-----------------------------------------------------------------------------
(* Schedule parser *)

PorAsignar == <<"P", "o", "r", " ", "A", "s", "i", "g", "n", "a", "r">>

\* MISSING_CLASSROM_RE.match(text): \(?Por Asignar\(? anchored at the start only
MISSING_CLASSROM_RE(text) ==
    \/ StartsWithAt(text, PorAsignar, 1)
    \/ StartsWithAt(text, <<"(">> \o PorAsignar, 1)

\* expand_schedule with the product taken hours first
expand_schedule_hour_major(module_schedule, module_type, classroom) ==
    LET parts == str_split(module_schedule, <<":">>)
    IN  IF Len(parts) # 2 THEN Raise("ValueError")
        ELSE
        LET days_raw == parts[1]
            hours_raw == parts[2]
        IN  IF ~(days_raw # <<>> /\ hours_raw # <<>>) THEN Return(<<>>)
            ELSE
            LET actual_classroom ==
                    IF MISSING_CLASSROM_RE(classroom) THEN None ELSE classroom
                days == str_split(days_raw, <<"-">>)
                hours == str_split(hours_raw, <<",">>)
                nd == Len(days)
            IN  Return([k \in 1..(nd * Len(hours)) |->
                        [classroom |-> actual_classroom,
                         type |-> module_type,
                         module |-> days[((k - 1) % nd) + 1]
                                    \o hours[((k - 1) \div nd) + 1]]])

expand_schedule(module_schedule, module_type, classroom) ==
    LET parts == str_split(module_schedule, <<":">>)
    IN  IF Len(parts) # 2 THEN Raise("ValueError")
        ELSE
        LET days_raw == parts[1]
            hours_raw == parts[2]
        IN  IF ~(days_raw # <<>> /\ hours_raw # <<>>) THEN Return(<<>>)
            ELSE
            LET actual_classroom ==
                    IF MISSING_CLASSROM_RE(classroom) THEN None ELSE classroom
                days == str_split(days_raw, <<"-">>)
                hours == str_split(hours_raw, <<",">>)
                nh == Len(hours)
            IN  Return([k \in 1..(Len(days) * nh) |->
                        [classroom |-> actual_classroom,
                         type |-> module_type,
                         module |-> days[((k - 1) \div nh) + 1]
                                    \o hours[((k - 1) % nh) + 1]]])

\* the loop of parse_schedule assigning schedule_full instead of extending it
RECURSIVE ParseModuleRows_overwriting(_, _, _, _)
ParseModuleRows_overwriting(rows, i, schedule_full, schedule_compact) ==
    IF i > Len(rows)
    THEN Return([full |-> schedule_full, compact |-> schedule_compact])
    ELSE
    LET packed_data == [k \in 1..Len(rows[i]) |-> str_strip(rows[i][k])]
    IN  IF Len(packed_data) < 3 THEN Raise("ValueError")
        ELSE
        LET expanded == expand_schedule(packed_data[1], packed_data[2], packed_data[3])
        IN  IF expanded.raised THEN expanded
            ELSE ParseModuleRows_overwriting(rows, i + 1,
                    expanded.val,
                    Append(schedule_compact,
                           [classroom |-> packed_data[3], type |-> packed_data[2],
                            module |-> packed_data[1]]))

\* the loop body of parse_schedule from module row i on
RECURSIVE ParseModuleRows(_, _, _, _)
ParseModuleRows(rows, i, schedule_full, schedule_compact) ==
    IF i > Len(rows)
    THEN Return([full |-> schedule_full, compact |-> schedule_compact])
    ELSE
    LET packed_data == [k \in 1..Len(rows[i]) |-> str_strip(rows[i][k])]
    IN  IF Len(packed_data) < 3 THEN Raise("ValueError")
        ELSE
        LET module_schedule == packed_data[1]
            module_type == packed_data[2]
            classroom == packed_data[3]
            expanded == expand_schedule(module_schedule, module_type, classroom)
        IN  IF expanded.raised THEN expanded
            ELSE ParseModuleRows(rows, i + 1,
                    schedule_full \o expanded.val,
                    Append(schedule_compact,
                           [classroom |-> classroom, type |-> module_type,
                            module |-> module_schedule]))

\* row_value_tag: [text, tables]; tables are the nested tables of the cell, each
\* the sequence of its <tr> rows, each row the texts of its <td> cells
parse_schedule(row_value_tag) ==
    IF row_value_tag.tables = <<>> THEN Return(None)
    ELSE ParseModuleRows(row_value_tag.tables[1], 1, <<>>, <<>>)

-----------------------------------------------------------------------------
(* Teacher parser *)

SinProfesores == <<"S", "i", "n", " ", "P", "r", "o", "f", "e", "s", "o", "r", "e", "s">>

DireccionDocente ==
    <<"D", "i", "r", "e", "c", "c", "i", "ó", "n", " ", "D", "o", "c", "e", "n", "t", "e">>

PorFijar == <<"P", "o", "r", " ", "F", "i", "j", "a", "r">>

\* MISSING_TEACHERS_RE.match(text)
MISSING_TEACHERS_RE(text) == StartsWithAt(text, SinProfesores, 1)

\* NONPERSON_TEACHERS_RE.match(text)
NONPERSON_TEACHERS_RE(text) ==
    StartsWithAt(text, DireccionDocente, 1) \/ StartsWithAt(text, PorFijar, 1)

parse_teachers(row_value_tag) ==
    LET raw_info == str_strip(row_value_tag.text)
    IN  IF MISSING_TEACHERS_RE(raw_info) THEN Return(<<>>)
        ELSE IF NONPERSON_TEACHERS_RE(raw_info) THEN Return(<<raw_info>>)
        ELSE
        LET teachers == str_split(raw_info, <<",", " ">>)
        IN  Return([i \in 1..Len(teachers) |->
                LET name_parts == str_split(teachers[i], <<" ">>)
                IN  name_parts[Len(name_parts)] \o <<" ">>
                    \o str_join(SubSeq(name_parts, 1, Len(name_parts) - 1), <<" ">>)])

-----------------------------------------------------------------------------
(* Term discovery *)

\* the loop of get_available_terms from option i on
RECURSIVE ParseOptions(_, _, _)
ParseOptions(options, i, academic_periods) ==
    IF i > Len(options) THEN Return(academic_periods)
    ELSE IF options[i].value = None THEN Raise("KeyError")
    ELSE
    LET parts == str_split(options[i].value, <<"-">>)
    IN  IF Len(parts) # 2 THEN Raise("ValueError")
        ELSE
        LET year == python_int(parts[1])
            period == python_int(parts[2])
        IN  IF year.raised THEN year
            ELSE IF period.raised THEN period
            ELSE ParseOptions(options, i + 1,
                              Append(academic_periods, <<year.val, period.val>>))

\* selectors: the <select name="cxml_semestre"> elements of the page, each the
\* sequence of its <option> children, each [value |-> text or None]
get_available_terms(selectors) ==
    IF selectors = <<>> THEN Return(<<>>)
    ELSE ParseOptions(selectors[1], 1, <<>>)

-----------------------------------------------------------------------------
(* Cell helpers of scrapers/utils.py *)

LowerCase == <<"a", "e", "i", "n", "o", "s">>

UpperCase == <<"A", "E", "I", "N", "O", "S">>

\* s.upper()
str_upper(s) ==
    [k \in 1..Len(s) |->
        IF \E c \in 1..Len(LowerCase) : LowerCase[c] = s[k]
        THEN UpperCase[CHOOSE c \in 1..Len(LowerCase) : LowerCase[c] = s[k]]
        ELSE s[k]]

\* Text Normalizer: the trimmed text of a cell
clean_text(tag) == str_strip(tag.text)

\* Integer coercer: the normalized text as an integer, or a parse error
tag_to_int_value(tag) ==
    LET n == python_int(clean_text(tag))
    IN  IF n.raised THEN Raise("ParseError") ELSE n

\* lambda n: clean_text(n).upper() == "SI"
is_si(tag) == str_upper(clean_text(tag)) = <<"S", "I">>

\* field name and strategy of every column, in column order
COLUMNS_STRATEGIES ==
    << <<"ncr", "clean_text">>,
       <<"code", "clean_text">>,
       <<"allows_withdraw", "is_si">>,
       <<"is_in_english", "is_si">>,
       <<"section", "tag_to_int_value">>,
       <<"requires_special_approval", "is_si">>,
       <<"fg_area", "clean_text">>,
       <<"format", "clean_text">>,
       <<"category", "clean_text">>,
       <<"name", "clean_text">>,
       <<"teachers", "parse_teachers">>,
       <<"campus", "clean_text">>,
       <<"credits", "tag_to_int_value">>,
       <<"total_vacancy", "tag_to_int_value">>,
       <<"available_vacancy", "tag_to_int_value">>,
       <<"reserved_vacancy", "None">>,
       <<"schedule", "parse_schedule">>,
       <<"add_to_calendar", "None">> >>

\* one strategy applied to one cell
ApplyStrategy(fn, tag) ==
    CASE fn = "clean_text" -> Return(clean_text(tag))
      [] fn = "is_si" -> Return(is_si(tag))
      [] fn = "tag_to_int_value" -> tag_to_int_value(tag)
      [] fn = "parse_teachers" -> parse_teachers(tag)
      [] fn = "parse_schedule" -> parse_schedule(tag)

\* Column Strategy Dispatcher: a cell count other than the table's is a
\* structural failure of the row; a column mapped to None gives no key; the
\* first failing coercion is the row's failure
run_parse_strategy(strategy, values) ==
    IF Len(values) # Len(strategy) THEN Raise("StructuralRowError")
    ELSE
    LET used == {c \in 1..Len(strategy) : strategy[c][2] # "None"}
        out == [c \in used |-> ApplyStrategy(strategy[c][2], values[c])]
        failed == {c \in used : out[c].raised}
        column(key) == CHOOSE c \in used : strategy[c][1] = key
    IN  IF failed # {}
        THEN out[CHOOSE c \in failed : \A d \in failed : c <= d]
        ELSE Return([key \in {strategy[c][1] : c \in used} |-> out[column(key)].val])

-----------------------------------------------------------------------------
(* Row/School resolver *)

\* NON_EMPTY_TEXT_RE.match(text): some character is not whitespace
NON_EMPTY_TEXT_RE(text) == \E i \in 1..Len(text) : text[i] \notin Whitespace

\* an element matches ACADEMIC_UNIT_FINDER: the attributes style and class are
\* absent and its string matches NON_EMPTY_TEXT_RE
ACADEMIC_UNIT_FINDER(tag) ==
    /\ tag.attrs.style = None
    /\ tag.attrs.class = None
    /\ tag.string # None
    /\ NON_EMPTY_TEXT_RE(tag.string)

\* the farthest match before p instead of the nearest
find_previous_sibling_farthest(siblings, p) ==
    LET hits == {q \in 1..(p - 1) : ACADEMIC_UNIT_FINDER(siblings[q])}
    IN  IF hits = {} THEN 0 ELSE CHOOSE q \in hits : \A r \in hits : q <= r

\* row.find_previous_sibling(**ACADEMIC_UNIT_FINDER), row being siblings[p]:
\* the position of the nearest match before p, 0 for None
find_previous_sibling(siblings, p) ==
    LET hits == {q \in 1..(p - 1) : ACADEMIC_UNIT_FINDER(siblings[q])}
    IN  IF hits = {} THEN 0 ELSE CHOOSE q \in hits : \A r \in hits : r <= q

\* a | b on dicts: the right operand wins on a shared key
dict_union(a, b) ==
    [key \in (DOMAIN a) \cup (DOMAIN b) |-> IF key \in DOMAIN b THEN b[key] ELSE a[key]]

\* parse_row returning what it has when the dispatcher fails
parse_row_swallowing(siblings, p) ==
    LET school_tag == find_previous_sibling(siblings, p)
        data == IF school_tag # 0
                THEN [key \in {"school"} |-> str_strip(siblings[school_tag].string)]
                ELSE [key \in {} |-> None]
        parsed == run_parse_strategy(COLUMNS_STRATEGIES, siblings[p].cells)
    IN  IF parsed.raised
        THEN Return(dict_union(data, [key \in {"ncr"} |-> clean_text(siblings[p].cells[1])]))
        ELSE Return(dict_union(data, parsed.val))

\* parse_row(row), row being siblings[p]
parse_row(siblings, p) ==
    LET school_tag == find_previous_sibling(siblings, p)
        data == IF school_tag # 0
                THEN [key \in {"school"} |-> str_strip(siblings[school_tag].string)]
                ELSE [key \in {} |-> None]
        parsed == run_parse_strategy(COLUMNS_STRATEGIES, siblings[p].cells)
    IN  IF parsed.raised THEN parsed
        ELSE Return(dict_union(data, parsed.val))

-----------------------------------------------------------------------------
(* Table orchestrator *)

Resultados == <<"r", "e", "s", "u", "l", "t", "a", "d", "o", "s">>

\* MATCH_RESULT_ROW: the class attribute contains "resultados"
MATCH_RESULT_ROW(tag) ==
    /\ tag.attrs.class # None
    /\ str_find(tag.attrs.class, Resultados) # 0

\* soup.find_all("tr", MATCH_RESULT_ROW): positions of the matches, in
\* document order
RECURSIVE find_all(_, _)
find_all(siblings, p) ==
    IF p > Len(siblings) THEN <<>>
    ELSE IF siblings[p].name = "tr" /\ MATCH_RESULT_ROW(siblings[p])
         THEN <<p>> \o find_all(siblings, p + 1)
         ELSE find_all(siblings, p + 1)

\* the coroutines built from the rows in reverse
RoutinesReversed(results) ==
    [i \in 1..Len(results) |-> results[Len(results) + 1 - i]]

\* [parse_row(row) for row in results]: one coroutine per row, in the order
\* of results
Routines(results) == results

NotRun == [pending |-> TRUE]

\* gather_routines collects the finished routines in the order in which they
\* were handed over, leaving out the ones that failed
RECURSIVE gather_routines(_, _)
gather_routines(outcomes, i) ==
    IF i > Len(outcomes) THEN <<>>
    ELSE IF outcomes[i].raised THEN gather_routines(outcomes, i + 1)
    ELSE <<outcomes[i].val>> \o gather_routines(outcomes, i + 1)

-----------------------------------------------------------------------------
(* Inputs *)

\* the non-empty sequences of at most n members of T
TokSeqs(T, n) == UNION {[1..k -> T] : k \in 1..n}

\* the sequences of at most n members of T
SeqsUpTo(T, n) == UNION {[1..k -> T] : k \in 0..n}

DayTokens == {<<>>, <<"L">>, <<"M">>, <<"L", "M">>}

HourTokens == {<<>>, <<"1">>, <<"2">>, <<"1", "-", "2">>}

ModuleTypes == {<<"C", "L", "A", "S">>}

Classrooms ==
    {<<"A", "1">>,
     PorAsignar,
     <<"(">> \o PorAsignar \o <<")">>,
     PorAsignar \o <<" ", "B">>,
     <<"S", "a", "l", "a", " ">> \o PorAsignar}

\* module-specs that are not of the form "D:H"
RawModuleSpecs == {<<"L">>, <<"L", ":", "1", ":", "2">>}

\* the text of the module-spec cell of a nested timetable row
ModuleSpecCells ==
    {<<" ", "L", "-", "M", ":", "1", ",", "2", "\n">>,
     <<"L", ":">>,
     <<"M", ":", "1">>,
     <<"L", "M">>}

\* a nested timetable row of n cells
ModuleRow(spec, classroom, n) ==
    [k \in 1..n |->
        CASE k = 1 -> spec
          [] k = 2 -> <<"C", "L", "A", "S">>
          [] k = 3 -> classroom
          [] OTHER -> <<"x">>]

ModuleRows ==
    {ModuleRow(spec, classroom, n) :
        spec \in ModuleSpecCells, classroom \in {<<"A", "1">>, PorAsignar}, n \in 0..MaxCells}

NameTokens == {<<"A", "n", "a">>, <<"P", "a", "z">>}

\* the teachers text listing the entries, each entry a sequence of name tokens
TeachersText(entries) ==
    <<"\n", " ">>
    \o str_join([i \in 1..Len(entries) |-> str_join(entries[i], <<" ">>)], <<",", " ">>)
    \o <<" ">>

RawTeachersTexts ==
    {SinProfesores,
     <<" ">> \o SinProfesores \o <<"\n">>,
     SinProfesores \o <<" ", "A">>,
     DireccionDocente,
     PorFijar,
     PorFijar \o <<",", " ", "A", " ", "B">>,
     <<>>,
     <<"A", " ", " ", "B">>}

OptionValues ==
    {<<"2", "0", "2", "4", "-", "1">>,
     <<"2", "0", "2", "4", "-", "2">>,
     <<"g", "a", "r", "b", "a", "g", "e">>,
     <<"2", "0", "2", "4", "-", "x">>,
     None}

Cell(text) == [text |-> text, tables |-> <<>>]

\* the cells of a result row: the ncr is the row's position in the document
RowCells(p, section, timetable) ==
    << Cell(<<"\n", Digits[p + 1], " ">>),
       Cell(<<"I", "I", "C", "1">>),
       Cell(<<"S", "I">>),
       Cell(<<"N", "O">>),
       Cell(section),
       Cell(<<"s", "i">>),
       Cell(<<>>),
       Cell(<<"P">>),
       Cell(<<" ">>),
       Cell(<<"P", "r", "o", "g">>),
       Cell(<<"A", "n", "a", " ", "P", "a", "z">>),
       Cell(<<"S", "J">>),
       Cell(<<"1", "0">>),
       Cell(<<" ", "9", "0">>),
       Cell(<<"5">>),
       Cell(<<"0">>),
       [text |-> <<>>, tables |-> <<timetable>>],
       Cell(<<>>) >>

GoodTimetable == << ModuleRow(<<"L", "-", "M", ":", "1", ",", "2">>, <<"A", "1">>, 3) >>

ShortTimetable == << ModuleRow(<<"L", ":", "1">>, <<"A", "1">>, 2) >>

ResultRow(cells) ==
    [name |-> "tr",
     attrs |-> [class |-> Resultados \o <<"R", "o", "w">>, style |-> None],
     string |-> None,
     cells |-> cells]

TextRow(class, style, string) ==
    [name |-> "tr", attrs |-> [class |-> class, style |-> style],
     string |-> string, cells |-> <<>>]

ElementKinds ==
    {"good", "count", "int", "sched", "headA", "headB", "styled", "classed", "blank"}

\* the element of a kind at position p of the document
Element(kind, p) ==
    CASE kind = "good" -> ResultRow(RowCells(p, <<"1">>, GoodTimetable))
      [] kind = "count" -> ResultRow(SubSeq(RowCells(p, <<"1">>, GoodTimetable), 1, 17))
      [] kind = "int" -> ResultRow(RowCells(p, <<"x">>, GoodTimetable))
      [] kind = "sched" -> ResultRow(RowCells(p, <<"1">>, ShortTimetable))
      [] kind = "headA" -> TextRow(None, None, <<"\n", "I", "n", "g", " ">>)
      [] kind = "headB" -> TextRow(None, None, <<"M", "a", "t">>)
      [] kind = "styled" -> TextRow(None, <<"b">>, <<"N", "R", "C">>)
      [] kind = "classed" -> TextRow(<<"c">>, None, <<"N", "R", "C">>)
      [] kind = "blank" -> TextRow(None, None, <<" ", "\n">>)

Documents ==
    {[p \in 1..Len(kinds) |-> Element(kinds[p], p)] :
        kinds \in SeqsUpTo(ElementKinds, MaxDocLen)}

-----------------------------------------------------------------------------
(* Behaviour *)

NoCall == [fn |-> "none", arg |-> <<>>, result |-> <<>>]

Init ==
    /\ call = NoCall
    /\ pc = "idle"
    /\ doc = <<>>
    /\ routines = <<>>
    /\ slots = <<>>
    /\ completed = <<>>
    /\ returned = None

orchestrator == <<doc, routines, slots, completed, returned>>

CallExpandSchedule ==
    /\ pc = "idle"
    /\ \E ds \in TokSeqs(DayTokens, MaxDays), hs \in TokSeqs(HourTokens, MaxHours),
          mt \in ModuleTypes, cl \in Classrooms :
          LET ms == str_join(ds, <<"-">>) \o <<":">> \o str_join(hs, <<",">>)
          IN  call' = [fn |-> "expand_schedule",
                       arg |-> [module_schedule |-> ms, module_type |-> mt,
                                classroom |-> cl, days |-> ds, hours |-> hs],
                       result |-> expand_schedule(ms, mt, cl)]
    /\ pc' = "called"
    /\ UNCHANGED orchestrator

CallExpandScheduleRaw ==
    /\ pc = "idle"
    /\ \E ms \in RawModuleSpecs, mt \in ModuleTypes, cl \in Classrooms :
          call' = [fn |-> "expand_schedule",
                   arg |-> [module_schedule |-> ms, module_type |-> mt,
                            classroom |-> cl, days |-> <<>>, hours |-> <<>>],
                   result |-> expand_schedule(ms, mt, cl)]
    /\ pc' = "called"
    /\ UNCHANGED orchestrator

CallParseSchedule ==
    /\ pc = "idle"
    /\ \E tables \in SeqsUpTo(SeqsUpTo(ModuleRows, MaxModuleRows), 1) :
          call' = [fn |-> "parse_schedule",
                   arg |-> [text |-> <<>>, tables |-> tables],
                   result |-> parse_schedule([text |-> <<>>, tables |-> tables])]
    /\ pc' = "called"
    /\ UNCHANGED orchestrator

CallParseTeachers ==
    /\ pc = "idle"
    /\ \E entries \in TokSeqs(TokSeqs(NameTokens, MaxNameParts), MaxTeachers) :
          LET tag == Cell(TeachersText(entries))
          IN  call' = [fn |-> "parse_teachers",
                       arg |-> [text |-> tag.text, entries |-> entries],
                       result |-> parse_teachers(tag)]
    /\ pc' = "called"
    /\ UNCHANGED orchestrator

CallParseTeachersRaw ==
    /\ pc = "idle"
    /\ \E text \in RawTeachersTexts :
          call' = [fn |-> "parse_teachers",
                   arg |-> [text |-> text, entries |-> <<>>],
                   result |-> parse_teachers(Cell(text))]
    /\ pc' = "called"
    /\ UNCHANGED orchestrator

CallGetAvailableTerms ==
    /\ pc = "idle"
    /\ \E selectors \in SeqsUpTo(SeqsUpTo([value : OptionValues], MaxOptions), 1) :
          call' = [fn |-> "get_available_terms",
                   arg |-> [selectors |-> selectors],
                   result |-> get_available_terms(selectors)]
    /\ pc' = "called"
    /\ UNCHANGED orchestrator

\* get_courses_raw up to the await of gather_routines
GetCoursesRaw ==
    /\ pc = "idle"
    /\ \E d \in Documents :
          LET results == find_all(d, 1)
          IN  /\ doc' = d
              /\ IF results = <<>>
                 THEN /\ pc' = "done"
                      /\ returned' = Return(<<>>)
                      /\ routines' = <<>>
                      /\ slots' = <<>>
                 ELSE /\ pc' = "gathering"
                      /\ returned' = None
                      /\ routines' = Routines(results)
                      /\ slots' = [i \in 1..Len(results) |-> NotRun]
    /\ completed' = <<>>
    /\ call' = NoCall

\* one of the gathered routines runs parse_row to its end
RunRoutine(i) ==
    /\ pc = "gathering"
    /\ slots[i] = NotRun
    /\ slots' = [slots EXCEPT ![i] = parse_row(doc, routines[i])]
    /\ completed' = Append(completed, i)
    /\ UNCHANGED <<call, pc, doc, routines, returned>>

\* gather_routines resumes get_courses_raw, which returns its list
GatherReturn ==
    /\ pc = "gathering"
    /\ \A i \in 1..Len(slots) : slots[i] # NotRun
    /\ returned' = Return(gather_routines(slots, 1))
    /\ pc' = "done"
    /\ UNCHANGED <<call, doc, routines, slots, completed>>

Next ==
    \/ CallExpandSchedule
    \/ CallExpandScheduleRaw
    \/ CallParseSchedule
    \/ CallParseTeachers
    \/ CallParseTeachersRaw
    \/ CallGetAvailableTerms
    \/ GetCoursesRaw
    \/ \E i \in 1..Len(slots) : RunRoutine(i)
    \/ GatherReturn

Spec == Init /\ [][Next]_vars

-----------------------------------------------------------------------------
(* Vocabulary of the properties *)

Returned(fn) == call.fn = fn /\ ~call.result.raised

\* positions of the result rows of the document
ResultPositions ==
    {p \in 1..Len(doc) : doc[p].attrs.class # None /\ doc[p].cells # <<>>}

\* the text is an integer literal
IsIntLiteral(text) ==
    LET t == str_strip(text)
    IN  IsDigits(t) \/ (t # <<>> /\ t[1] \in {"+", "-"} /\ IsDigits(Tail(t)))

IntColumns == {5, 13, 14, 15}

Colons(text) == Cardinality({k \in 1..Len(text) : text[k] = ":"})

\* every row of the nested timetable has its three cells and a "D:H" spec
TimetableWellFormed(cell) ==
    cell.tables # <<>> =>
        \A i \in 1..Len(cell.tables[1]) :
            Len(cell.tables[1][i]) >= 3 /\ Colons(cell.tables[1][i][1]) = 1

\* the row has the cell count of the strategy table, integer literals in the
\* integer columns and a well-formed timetable
WellFormedRow(row) ==
    /\ Len(row.cells) = 18
    /\ \A c \in IntColumns : IsIntLiteral(row.cells[c].text)
    /\ TimetableWellFormed(row.cells[17])

WellFormedPositions == {p \in ResultPositions : WellFormedRow(doc[p])}

\* the result row a returned record was parsed from
PositionOf(record) ==
    CHOOSE p \in ResultPositions : str_strip(doc[p].cells[1].text) = record.ncr

\* both parts of a "D:H" module-spec are non-empty
BothPartsNonEmpty(spec) ==
    Colons(spec) = 1 /\ spec[1] # ":" /\ spec[Len(spec)] # ":"

\* classroom texts that match the "to be assigned" pattern: it is looked for at
\* the start of the text only, and text may follow it
SentinelClassrooms ==
    {PorAsignar, <<"(">> \o PorAsignar \o <<")">>, PorAsignar \o <<" ", "B">>}

\* the text has the form "<year>-<period>"
IsTermFormat(value) ==
    \E k \in 2..(Len(value) - 1) :
        /\ value[k] = "-"
        /\ IsDigits(SubSeq(value, 1, k - 1))
        /\ IsDigits(SubSeq(value, k + 1, Len(value)))

TermOf(value) ==
    LET k == CHOOSE k \in 2..(Len(value) - 1) : value[k] = "-"
    IN  <<DigitsValue(SubSeq(value, 1, k - 1)), DigitsValue(SubSeq(value, k + 1, Len(value)))>>

\* "First Middle Last" as "Last First Middle", joined by single spaces
LastFirst(tokens) ==
    str_join(<<tokens[Len(tokens)]>> \o SubSeq(tokens, 1, Len(tokens) - 1), <<" ">>)

-----------------------------------------------------------------------------
(* Properties *)

C2_OrderPreserved ==
    pc = "done" =>
        \A j, k \in 1..Len(returned.val) :
            j < k => PositionOf(returned.val[j]) < PositionOf(returned.val[k])

\* reached: two rows returned after the later routine finished first
C2_Witness ==
    /\ pc = "done"
    /\ Len(returned.val) >= 2
    /\ Len(completed) >= 2
    /\ completed[1] > completed[2]

\* C3: get_available_terms returns the (year, period) pair of every option of
\* the form "<year>-<period>", in option order, and skips the others without
\* raising.
C3_TermsSkipMalformed ==
    (call.fn = "get_available_terms"
        /\ call.arg.selectors # <<>>
        /\ \A i \in 1..Len(call.arg.selectors[1]) : call.arg.selectors[1][i].value # None) =>
        LET options == call.arg.selectors[1]
            WellFormed(option) == IsTermFormat(option.value)
            kept == SelectSeq(options, WellFormed)
        IN  /\ ~call.result.raised
            /\ call.result.val = [i \in 1..Len(kept) |-> TermOf(kept[i].value)]

\* C4: parse_schedule skips a module row of fewer than three cells, does not
\* raise, and its compact list has the entry of every well-formed module row.
C4_ShortModuleRowSkipped ==
    (call.fn = "parse_schedule"
        /\ call.arg.tables # <<>>
        /\ \A i \in 1..Len(call.arg.tables[1]) :
              Len(call.arg.tables[1][i]) >= 3 => Colons(call.arg.tables[1][i][1]) = 1) =>
        LET rows == call.arg.tables[1]
            HasThreeCells(row) == Len(row) >= 3
            kept == SelectSeq(rows, HasThreeCells)
        IN  /\ ~call.result.raised
            /\ call.result.val.compact =
                  [i \in 1..Len(kept) |->
                      [classroom |-> str_strip(kept[i][3]), type |-> str_strip(kept[i][2]),
                       module |-> str_strip(kept[i][1])]]

\* C5: for a module-spec "D:H", expand_schedule returns no session if D or H is
\* empty and otherwise one session per (day, hour) pair in day-major order,
\* with module = day token followed by hour token, the module type, and the
\* classroom absent for the sentinel and the raw text otherwise; parse_schedule
\* has one compact entry for every row, those with an empty part included.
C5_ExpandIsProduct ==
    /\ (call.fn = "expand_schedule" /\ call.arg.days # <<>>) =>
          LET ds == call.arg.days
              hs == call.arg.hours
              r == call.result
          IN  /\ ~r.raised
              /\ IF str_join(ds, <<"-">>) = <<>> \/ str_join(hs, <<",">>) = <<>>
                 THEN r.val = <<>>
                 ELSE /\ Len(r.val) = Len(ds) * Len(hs)
                      /\ \A i \in 1..Len(ds), j \in 1..Len(hs) :
                            r.val[(i - 1) * Len(hs) + j] =
                               [classroom |-> IF call.arg.classroom \in SentinelClassrooms
                                              THEN None ELSE call.arg.classroom,
                                type |-> call.arg.module_type,
                                module |-> ds[i] \o hs[j]]
    /\ (Returned("parse_schedule") /\ call.arg.tables # <<>>) =>
          /\ Len(call.result.val.compact) = Len(call.arg.tables[1])
          /\ \A i \in 1..Len(call.arg.tables[1]) :
                call.result.val.compact[i].module = str_strip(call.arg.tables[1][i][1])

\* reached: two days and two hours expanded to four sessions with a sentinel classroom
C5_Witness ==
    /\ Returned("expand_schedule")
    /\ Len(call.arg.days) = 2
    /\ Len(call.arg.hours) = 2
    /\ Len(call.result.val) = 4
    /\ call.result.val[1].classroom = None
    /\ call.result.val[2].module # call.result.val[3].module

Modules(sessions) == [i \in 1..Len(sessions) |-> sessions[i].module]

\* C6: the module-spec "LM:1-2" expands to exactly the 4 sessions (L,1),
\* (L,2), (M,1), (M,2).
C6_LM12IsFourSessions ==
    (call.fn = "expand_schedule"
        /\ call.arg.module_schedule = <<"L", "M", ":", "1", "-", "2">>) =>
        /\ ~call.result.raised
        /\ Modules(call.result.val) = << <<"L", "1">>, <<"L", "2">>, <<"M", "1">>, <<"M", "2">> >>

\* C6 as amended: the module-spec "L-M:1,2" expands to exactly the 4 sessions
\* (L,1), (L,2), (M,1), (M,2); "LM:1-2" expands to the single session "LM1-2".
C6_Amended ==
    /\ (call.fn = "expand_schedule"
          /\ call.arg.module_schedule = <<"L", "-", "M", ":", "1", ",", "2">>) =>
          /\ ~call.result.raised
          /\ Modules(call.result.val)
                = << <<"L", "1">>, <<"L", "2">>, <<"M", "1">>, <<"M", "2">> >>
    /\ (call.fn = "expand_schedule"
          /\ call.arg.module_schedule = <<"L", "M", ":", "1", "-", "2">>) =>
          /\ ~call.result.raised
          /\ Modules(call.result.val) = << <<"L", "M", "1", "-", "2">> >>

\* reached: "L-M:1,2" expanded to four sessions
C6_Witness ==
    /\ Returned("expand_schedule")
    /\ call.arg.module_schedule = <<"L", "-", "M", ":", "1", ",", "2">>
    /\ Len(call.result.val) = 4

\* C7: in every schedule returned by parse_schedule, compact is no longer than
\* full.
C7_CompactAtMostFull ==
    (Returned("parse_schedule") /\ call.arg.tables # <<>>) =>
        Len(call.result.val.compact) <= Len(call.result.val.full)

\* C7 as amended: in every schedule returned by parse_schedule, the compact
\* entries whose module-spec has a non-empty day-part and a non-empty hour-part
\* are no more than the entries of full.
C7_Amended ==
    (Returned("parse_schedule") /\ call.arg.tables # <<>>) =>
        LET compact == call.result.val.compact
        IN  Cardinality({i \in 1..Len(compact) : BothPartsNonEmpty(compact[i].module)})
               <= Len(call.result.val.full)

\* reached: a returned schedule with a row of two non-empty parts and a row with an empty part
C7_Witness ==
    /\ Returned("parse_schedule")
    /\ call.arg.tables # <<>>
    /\ Len(call.result.val.compact) = 2
    /\ BothPartsNonEmpty(call.result.val.compact[1].module)
    /\ ~BothPartsNonEmpty(call.result.val.compact[2].module)
    /\ Len(call.result.val.full) >= 1

\* C8: for a non-sentinel text, parse_teachers returns one name per ", "
\* entry, in entry order, each the entry's tokens with the last one moved to
\* the front and rejoined by exactly one space (a one-token entry unchanged).
C8_TeacherNormalization ==
    (call.fn = "parse_teachers" /\ call.arg.entries # <<>>) =>
        /\ ~call.result.raised
        /\ call.result.val =
              [i \in 1..Len(call.arg.entries) |-> LastFirst(call.arg.entries[i])]

\* C9: parse_teachers returns the empty list iff the trimmed text is exactly
\* "Sin Profesores", the one-element list of the text for a non-person
\* sentinel, and a non-empty list of normalized names for every other text.
C9_TeacherSentinels ==
    call.fn = "parse_teachers" =>
        LET text == str_strip(call.arg.text)
        IN  /\ ~call.result.raised
            /\ call.result.val = <<>> <=> text = SinProfesores
            /\ text \in {DireccionDocente, PorFijar} => call.result.val = <<text>>

=============================================================================
